---- MODULE Spec2Model ----
(***************************************************************************)
(* Orchestration core of the VSA controller (src/measurements/vsa.py):     *)
(* the OPC-synchronised command primitive, the numeric query helper, the   *)
(* servo flag resolution and servo runner, and the four measurement phases *)
(* (baseline, single DPD, iterative DPD, GMP DPD), run against a scripted   *)
(* instrument session that records every interaction.                      *)
(*                                                                         *)
(* Each method of the controller is executed one instrument interaction at *)
(* a time: `todo` holds the statements of the running call that are still   *)
(* to be executed, `log` what the session and the regulator have seen.     *)
(* Wall-clock fields of the result (evm_time, aclr_time, total time) are   *)
(* differences of time() readings and carry no control flow; only the two  *)
(* servo times, which the servo runner defaults to 0.0, are kept.          *)
(***************************************************************************)
EXTENDS Integers, Sequences, FiniteSets, TLC

VARIABLES
    defaults,   \* module globals USE_POWER_SERVO / USE_K18_POWER_SERVO
    call,       \* the running (or last) call: which method, of which file
    todo,       \* statements of the call still to be executed
    status,     \* "idle" | "running" | "returned" | "raised"
    err,        \* the exception that left the call, and what was logged
    loc,        \* parameters and local variables of the running call
    result,     \* the value the call returned
    log,        \* interactions of this call, in order
    inst        \* the instrument behind the session

vars == <<defaults, call, todo, status, err, loc, result, log, inst>>

-----------------------------------------------------------------------------
(* Bounds of the exploration *)

MaxPolls == 2        \* status queries an instrument needs before OPC is set
MaxServoIter == 1    \* iterations the external regulator may report
MaxLen == 3          \* characters of a reply drawn for the numeric parser
MaxWait == 3         \* status queries followed on an instrument that hangs

-----------------------------------------------------------------------------
(* Replies are sequences of one-character strings.  float() of a reply:    *)
(* surrounding whitespace is stripped, then an optional sign, digits with  *)
(* at most one decimal point and at least one digit.  Exponent, "nan",     *)
(* "inf" and "_" forms need characters outside ReplyAlphabet.              *)
(* A number is [m, e]: m * 10^(-e), trailing zeros removed; NaN has e = -1 *)

Digits == {"0", "1", "2", "3", "4", "5", "6", "7", "8", "9"}
Whitespace == {" ", "\n"}

DigitVal(c) ==
    CASE c = "0" -> 0 [] c = "1" -> 1 [] c = "2" -> 2 [] c = "3" -> 3
      [] c = "4" -> 4 [] c = "5" -> 5 [] c = "6" -> 6 [] c = "7" -> 7
      [] c = "8" -> 8 [] c = "9" -> 9

NaN == [m |-> 0, e |-> -1]
IsNaN(v) == v.e = -1

RECURSIVE LStrip(_)
LStrip(s) == IF s # <<>> /\ Head(s) \in Whitespace THEN LStrip(Tail(s)) ELSE s

RECURSIVE RStrip(_)
RStrip(s) ==
    IF s # <<>> /\ s[Len(s)] \in Whitespace
        THEN RStrip(SubSeq(s, 1, Len(s) - 1)) ELSE s

Strip(s) == RStrip(LStrip(s))

RECURSIVE DigitsValue(_)
DigitsValue(s) ==
    IF s = <<>> THEN 0
    ELSE 10 * DigitsValue(SubSeq(s, 1, Len(s) - 1)) + DigitVal(s[Len(s)])

RECURSIVE Normalize(_, _)
Normalize(m, e) ==
    IF m = 0 THEN [m |-> 0, e |-> 0]
    ELSE IF e > 0 /\ m % 10 = 0 THEN Normalize(m \div 10, e - 1)
    ELSE [m |-> m, e |-> e]

AllDigits(s) == \A i \in 1..Len(s) : s[i] \in Digits

DotAt(s) == IF \E i \in 1..Len(s) : s[i] = "."
                THEN CHOOSE i \in 1..Len(s) :
                        s[i] = "." /\ \A j \in 1..(i - 1) : s[j] # "."
                ELSE 0

\* float(text): [ok |-> FALSE] stands for ValueError
PyFloat(text) ==
    LET s == Strip(text)
        signed == s # <<>> /\ Head(s) \in {"+", "-"}
        neg == s # <<>> /\ Head(s) = "-"
        body == IF signed THEN Tail(s) ELSE s
        d == DotAt(body)
        ip == IF d = 0 THEN body ELSE SubSeq(body, 1, d - 1)
        fp == IF d = 0 THEN <<>> ELSE SubSeq(body, d + 1, Len(body))
        wellFormed == AllDigits(ip) /\ AllDigits(fp) /\ Len(ip) + Len(fp) > 0
        mag == DigitsValue(ip \o fp)
    IN  IF wellFormed
            THEN [ok |-> TRUE,
                  val |-> Normalize(IF neg THEN 0 - mag ELSE mag, Len(fp))]
            ELSE [ok |-> FALSE, val |-> NaN]

\* int(text): surrounding whitespace stripped, optional sign, digits
PyInt(text) ==
    LET s == Strip(text)
        signed == s # <<>> /\ Head(s) \in {"+", "-"}
        neg == s # <<>> /\ Head(s) = "-"
        body == IF signed THEN Tail(s) ELSE s
    IN  IF body # <<>> /\ AllDigits(body)
            THEN [ok |-> TRUE,
                  val |-> IF neg THEN 0 - DigitsValue(body) ELSE DigitsValue(body)]
            ELSE [ok |-> FALSE, val |-> 0]

\* the decimal text of a register value, as the instrument sends it
DigitChar(d) ==
    CASE d = 0 -> "0" [] d = 1 -> "1" [] d = 2 -> "2" [] d = 3 -> "3"
      [] d = 4 -> "4" [] d = 5 -> "5" [] d = 6 -> "6" [] d = 7 -> "7"
      [] d = 8 -> "8" [] d = 9 -> "9"

RECURSIVE RegisterText(_)
RegisterText(n) ==
    IF n < 10 THEN <<DigitChar(n)>>
    ELSE RegisterText(n \div 10) \o <<DigitChar(n % 10)>>

\* text.split(','): the fields between commas (always at least one field)
RECURSIVE Split(_)
Split(s) ==
    IF \E i \in 1..Len(s) : s[i] = ","
        THEN LET i == CHOOSE i \in 1..Len(s) :
                        s[i] = "," /\ \A j \in 1..(i - 1) : s[j] # ","
             IN  <<SubSeq(s, 1, i - 1)>> \o Split(SubSeq(s, i + 1, Len(s)))
        ELSE <<s>>

-----------------------------------------------------------------------------
(* Canned replies of the scripted instrument *)

Str_10_0 == <<"1", "0", ".", "0">>
Str_1_23 == <<"1", ".", "2", "3">>
Str_ERR == <<"E", "R", "R">>
Str_ACLR == <<"-", "5", ".", "0", ",", "-", "4", "5", ".", "0", ",",
              "-", "4", "6", ".", "0">>
Str_ACLR_short == <<"-", "5", ".", "0", ",", "-", "4", "5", ".", "0">>
Str_ACLR_bad == <<"-", "5", ".", "0", ",", "E", "R", "R", ",",
                  "-", "4", "6", ".", "0">>

PowerCmd == "FETC:CC1:ISRC:FRAM:SUMM:POW:AVERage?"
EvmCmd == "FETC:CC1:ISRC:FRAM:SUMM:EVM:ALL:AVERage?"
AclrCmd == "CALC:MARK:FUNC:POW:RES? ACP"

CannedReplies(cmd) ==
    CASE cmd = PowerCmd -> {Str_10_0}
      [] cmd = EvmCmd -> {Str_1_23, Str_ERR}
      [] cmd = AclrCmd -> {Str_ACLR, Str_ACLR_short, Str_ACLR_bad}
      [] OTHER -> {Str_10_0}

\* time() differences of the servo helpers, as round(..., 3) may give them
ElapsedValues == {0, 1}

\* (ddpd_iterations, servo_iterations, target_output) a caller may pass
Profile1 == [target_output |-> 10, servo_iterations |-> 3, ddpd_iterations |-> 5]
Profile2 == [target_output |-> 12, servo_iterations |-> 4, ddpd_iterations |-> 2]
ArgProfiles == {Profile1, Profile2}

\* a per-call servo flag: omitted (None) or given
ArgValues == {"None", "True", "False"}

\* a regulator object is passed, or None
Regulators == {"obj", "None"}

\* A parameter is tracked up to its last read and not after it: the servo
\* flags and ddpd_iterations up to the call of _run_servos, the regulator
\* object, target_output and servo_iterations up to the last statement of
\* the servo helpers that is built from them.
Dead == "-"
DeadNum == 0 - 1

-----------------------------------------------------------------------------
(* The instrument: last selected context and measurement type, the event   *)
(* status register, and the status queries the running *OPC operation      *)
(* still needs before it completes.                                        *)

AmplifierSelects == {"INST:SEL \"Amplifier\";*OPC",
                     "INST:SEL \"Amplifier\"; *OPC?",
                     ":INST:SEL \"Amplifier\"; *OPC?"}
NRSelects == {"INST:SEL \"5G NR\"; *OPC?", ":INST:SEL \"5G NR\"; *OPC?"}
EvmSelects == {"CONF:NR5G:MEAS EVM", "CONF:NR5G:MEAS EVM; *OPC?",
               ":CONF:NR5G:MEAS EVM; *OPC?"}
AclrSelects == {"CONF:NR5G:MEAS ACLR", "CONF:NR5G:MEAS ACLR; *OPC?"}

Effect(i, cmd) ==
    [i EXCEPT !.ctx = IF cmd \in AmplifierSelects THEN "Amplifier"
                      ELSE IF cmd \in NRSelects THEN "NR" ELSE @,
              !.meas = IF cmd \in EvmSelects THEN "EVM"
                       ELSE IF cmd \in AclrSelects THEN "ACLR" ELSE @]

\* an operation that never completes (the firmware hangs): opcLeft = Never
Never == 0 - 1

\* "<command>;*OPC" arrives: an operation still running finishes first and
\* latches OPC, then the new one starts and needs n status queries
StartOperation(i, n) ==
    [i EXCEPT !.esr = IF i.opcLeft > 0 THEN 1 ELSE @, !.opcLeft = n]

\* between two calls the running operation finishes and latches OPC (a hung
\* one is abandoned and latches nothing)
Settle(i) == [i EXCEPT !.esr = IF i.opcLeft > 0 THEN 1 ELSE @, !.opcLeft = 0]

\* "<command>; *OPC?" arrives: the reply is given when the command and every
\* operation still running have completed, which latches OPC for a running
\* "*OPC"
AfterOpcQuery(i, cmd) == Settle(Effect(i, cmd))

\* "*ESR?" arrives: the running operation may complete and latch bit 0;
\* the register is returned and cleared by the read
EsrReply(i) == IF i.opcLeft = 1 THEN (i.esr - (i.esr % 2)) + 1 ELSE i.esr
AfterEsr(i) ==
    [i EXCEPT !.esr = 0, !.opcLeft = IF @ > 0 THEN @ - 1 ELSE @]

-----------------------------------------------------------------------------
(* Statements *)

Stmt(op, cmd, by, arg) == [op |-> op, cmd |-> cmd, by |-> by, arg |-> arg]
Q(cmd, by) == Stmt("query", cmd, by, "")
W(cmd, by) == Stmt("write", cmd, by, "")
OPC(cmd, by) == Stmt("opc", cmd, by, "")
F(cmd, by, var) == Stmt("fetch", cmd, by, var)

\* one interaction as the session (or the regulator) saw it; reply is the
\* text a query got back, <<>> for a write or a failed interaction
Entry(io, cmd, by, ok, reply) ==
    [io |-> io, cmd |-> cmd, by |-> by, ok |-> ok, reply |-> reply]

\* the reply to "<anything>; *OPC?"
Str_1 == <<"1">>

Unset == [m |-> 0, e |-> -2]

NoLocals ==
    [USE_POWER_SERVO |-> Dead, USE_K18_POWER_SERVO |-> Dead,
     power_servo |-> Dead, target_output |-> DeadNum,
     servo_iterations |-> DeadNum, ddpd_iterations |-> DeadNum,
     use_power_servo |-> FALSE, use_k18_power_servo |-> FALSE,
     servo_loops |-> 0, ext_servo_time |-> 0, k18_time |-> 0, elapsed |-> 0,
     value |-> Unset, vsa_power |-> Unset, evm |-> Unset,
     chan_pow |-> Unset, adj_lower |-> Unset, adj_upper |-> Unset]

-----------------------------------------------------------------------------
(* Bodies of the methods, statement by statement *)

\* faulty variant of write_command_opc: the command is written before the
\* status registers are armed
write_command_opc_ArmLate(command) ==
    <<Stmt("write_opc", command, "write_command_opc", command),
      Stmt("write", "*ESE 1", "write_command_opc", command),
      Stmt("write", "*SRE 32", "write_command_opc", command),
      Stmt("poll", command, "write_command_opc", command)>>

\* write_command_opc(command): arm, write "<command>;*OPC", poll *ESR?
write_command_opc(command) ==
    <<Stmt("write", "*ESE 1", "write_command_opc", command),
      Stmt("write", "*SRE 32", "write_command_opc", command),
      Stmt("write_opc", command, "write_command_opc", command),
      Stmt("poll", command, "write_command_opc", command)>>

\* faulty variant of the loop condition: the register is read once and the
\* method returns whatever it holds (an "if" where the code has a "while")
OpcPending_ReadOnce(reply) == FALSE

\* the loop condition of write_command_opc: poll again?
OpcPending(reply) == (reply % 2) # 1

\* faulty variant of the status loop: a reply that is no integer is taken as
\* "not complete" and the register is queried again
PollOutcome_UnreadableIsPending(replyText) ==
    IF ~PyInt(replyText).ok THEN "again"
    ELSE IF OpcPending(PyInt(replyText).val) THEN "again"
    ELSE "done"

\* faulty variant of the status loop: a reply with bit 0 clear ends the wait
\* with an error instead of another status query
PollOutcome_GiveUp(replyText) ==
    IF ~PyInt(replyText).ok THEN "ValueError"
    ELSE IF OpcPending(PyInt(replyText).val) THEN "ValueError"
    ELSE "done"

\* int(self.instr.query('*ESR?')): ValueError on a reply that is no integer
PollOutcome(replyText) ==
    IF ~PyInt(replyText).ok THEN "ValueError"
    ELSE IF OpcPending(PyInt(replyText).val) THEN "again"
    ELSE "done"

\* K18_power_servo(target_output, max_iterations)
K18_power_servo(target_output, max_iterations) ==
    LET by == "K18_power_servo" IN
    <<Q("INST:SEL \"Amplifier\"; *OPC?", by),
      Q("CONF:GEN:CONN:STAT ON; *OPC?", by),
      Q("CONF:GEN:CONT:STAT ON; *OPC?", by),
      Q(":CONF:SETT; *OPC?", by),
      Q("INIT:CONT OFF; *OPC?", by),
      Q("INIT:IMM; *OPC?", by),
      Q(":SENS:PSER:STAT ON; *OPC?", by),
      Q(":SENS:PSER:TARG:VAL " \o ToString(target_output) \o "; *OPC?", by),
      Q(":SENS:PSER:MAX:ITER " \o ToString(max_iterations) \o "; *OPC?", by),
      Stmt("k18_start", ":SENS:PSER:STAR; *OPC?", by, ""),
      Q(":INIT:IMM; *OPC?", by),
      Stmt("k18_level", ":FETCh:POWer:OUTPut:CURRent:RES?; *OPC?", by, "")>>

\* faulty variant of the flag resolution: the default is or-ed in, so that an
\* explicit False cannot switch off a strategy that is on by default
ResolveFlag_OrDefault(arg, default) == arg = "True" \/ default

\* _resolve_servo_flags: an explicit argument wins over the module default
ResolveFlag(arg, default) == IF arg # "None" THEN arg = "True" ELSE default

\* faulty variant of _resolve_servo_flags: an omitted flag takes the fallback
\* written in the method (True, False) and not the module global
_resolve_servo_flags_FallbackOnly(use_power_servo_arg, use_k18_power_servo_arg) ==
    [use_power_servo |-> ResolveFlag(use_power_servo_arg, TRUE),
     use_k18_power_servo |-> ResolveFlag(use_k18_power_servo_arg, FALSE)]

_resolve_servo_flags(use_power_servo_arg, use_k18_power_servo_arg) ==
    [use_power_servo |-> ResolveFlag(use_power_servo_arg, defaults.USE_POWER_SERVO),
     use_k18_power_servo |->
        ResolveFlag(use_k18_power_servo_arg, defaults.USE_K18_POWER_SERVO)]

\* faulty variant of _run_servos: the K18 servo runs whatever its flag says
_run_servos_K18Unguarded(power_servo_obj, target_output, max_iterations, use_power_servo, use_k18_power_servo) ==
    (IF use_power_servo /\ power_servo_obj # "None"
        THEN <<Stmt("servo_power", "servo_power", "power_servo", "")>>
        ELSE <<>>)
    \o K18_power_servo(target_output, max_iterations)

\* faulty variant of _run_servos: the K18 servo runs before the regulator
_run_servos_K18First(power_servo_obj, target_output, max_iterations, use_power_servo, use_k18_power_servo) ==
    (IF use_k18_power_servo
        THEN K18_power_servo(target_output, max_iterations)
        ELSE <<>>)
    \o (IF use_power_servo /\ power_servo_obj # "None"
            THEN <<Stmt("servo_power", "servo_power", "power_servo", "")>>
            ELSE <<>>)

\* faulty variant of _run_servos: the regulator is called without the test
\* for None
_run_servos_RegulatorUnchecked(power_servo_obj, target_output, max_iterations, use_power_servo, use_k18_power_servo) ==
    (IF use_power_servo
        THEN <<Stmt("servo_power", "servo_power", "power_servo", "")>>
        ELSE <<>>)
    \o (IF use_k18_power_servo
            THEN K18_power_servo(target_output, max_iterations)
            ELSE <<>>)

\* _run_servos: external regulator first (if enabled and supplied), then K18
_run_servos(power_servo_obj, target_output, max_iterations, use_power_servo, use_k18_power_servo) ==
    (IF use_power_servo /\ power_servo_obj # "None"
        THEN <<Stmt("servo_power", "servo_power", "power_servo", "")>>
        ELSE <<>>)
    \o (IF use_k18_power_servo
            THEN K18_power_servo(target_output, max_iterations)
            ELSE <<>>)

ServoStmts == <<Stmt("resolve", "", "_resolve_servo_flags", ""),
                Stmt("servos", "", "_run_servos", "")>>

Return(by) == <<Stmt("return", "", by, "")>>

\* faulty variant of measure_evm: the measurement type is switched to ACLR
\* before the EVM value is fetched
measure_evm_AclrBeforeEvmFetch ==
    LET by == "measure_evm" IN
    <<Q("INIT:CONT OFF; *OPC?", by),
      Q("INIT:IMM; *OPC?", by)>>
    \o ServoStmts \o
    <<Q(":INST:SEL \"5G NR\"; *OPC?", by),
      Q("INIT:IMM; *OPC?", by),
      F(PowerCmd, by, "vsa_power"),
      W("CONF:NR5G:MEAS ACLR", by),
      F(EvmCmd, by, "evm"),
      W("INIT:IMM;*WAI", by),
      Stmt("aclr", AclrCmd, by, ""),
      W("CONF:NR5G:MEAS EVM", by)>>
    \o Return(by)

measure_evm ==
    LET by == "measure_evm" IN
    <<Q("INIT:CONT OFF; *OPC?", by),
      Q("INIT:IMM; *OPC?", by)>>
    \o ServoStmts \o
    <<Q(":INST:SEL \"5G NR\"; *OPC?", by),
      Q("INIT:IMM; *OPC?", by),
      F(PowerCmd, by, "vsa_power"),
      F(EvmCmd, by, "evm"),
      W("CONF:NR5G:MEAS ACLR", by),
      W("INIT:IMM;*WAI", by),
      Stmt("aclr", AclrCmd, by, ""),
      W("CONF:NR5G:MEAS EVM", by)>>
    \o Return(by)

\* perform_single_dpd, "Select amplifier block" and "Configure Single DPD"
SingleDpdSelect ==
    LET by == "perform_single_dpd" IN
    <<OPC("INST:SEL \"Amplifier\"", by),
      Q("CONF:GEN:CONN:STAT ON; *OPC?", by),
      Q("CONF:GEN:CONT:STAT ON; *OPC?", by),
      Q("CONF:SETT; *OPC?", by),
      Q(":CONF:REFS:CGW:READ; *OPC?", by)>>

SingleDpdConfigure ==
    LET by == "perform_single_dpd" IN
    <<Q("INIT:CONT OFF; *OPC?", by),
      Q("INIT:IMM; *OPC?", by),
      Q("CONF:DDPD:STAT OFF; *OPC?", by),
      Q("CONF:DPD:SHAP:MODE POLY; *OPC?", by),
      Q(":CONF:DPD:TRAD 10; *OPC?", by),
      Q("INIT:IMM; *OPC?", by),
      Q(":CONF:DPD:FILE:GEN; *OPC?", by),
      Q(":CONF:DPD:UPD; *OPC?", by),
      Q("CONF:DPD:AMAM:STAT ON; *OPC?", by),
      Q("CONF:DPD:AMPM:STAT ON; *OPC?", by),
      Q("INIT:IMM; *OPC?", by)>>

\* perform_single_dpd, "EVM measurement (after DPD)" and "ACLR measurement"
SingleDpdMeasure ==
    LET by == "perform_single_dpd" IN
    <<Q("INST:SEL \"5G NR\"; *OPC?", by),
      Q("CONF:NR5G:MEAS EVM; *OPC?", by),
      Q("INIT:IMM; *OPC?", by),
      Q("INIT:IMM; *OPC?", by),
      F(PowerCmd, by, "vsa_power"),
      F(EvmCmd, by, "evm"),
      Q("CONF:NR5G:MEAS ACLR; *OPC?", by),
      Q("INIT:IMM;*OPC?", by),
      Stmt("aclr", AclrCmd, by, "")>>

\* perform_single_dpd, the commands between the ACLR capture and the return
SingleDpdTeardown ==
    LET by == "perform_single_dpd" IN
    <<OPC("INST:SEL \"Amplifier\"", by),
      Q("CONF:DPD:AMAM:STAT OF; *OPC?", by),
      Q("CONF:DPD:AMPM:STAT OF; *OPC?", by),
      Q("INST:SEL \"5G NR\"; *OPC?", by)>>

\* faulty variant of perform_single_dpd: the instrument is put into the NR
\* context first and the DPD mode is enabled before the Amplifier context
\* is selected
perform_single_dpd_ConfigureFirst ==
    <<Q("INST:SEL \"5G NR\"; *OPC?", "perform_single_dpd")>>
    \o SingleDpdConfigure \o SingleDpdSelect \o ServoStmts
    \o SingleDpdMeasure \o SingleDpdTeardown \o Return("perform_single_dpd")

perform_single_dpd ==
    SingleDpdSelect \o SingleDpdConfigure \o ServoStmts
    \o SingleDpdMeasure \o SingleDpdTeardown \o Return("perform_single_dpd")

\* perform_iterative_dpd, "Select amplifier"
IterativeDpdSelect ==
    LET by == "perform_iterative_dpd" IN
    <<OPC("INST:SEL \"Amplifier\"", by),
      Q("CONF:GEN:CONN:STAT ON; *OPC?", by),
      Q("CONF:GEN:CONT:STAT ON; *OPC?", by),
      Q("CONF:SETT; *OPC?", by),
      Q(":CONF:REFS:CGW:READ; *OPC?", by)>>

\* the iteration-count command as the f-string builds it
DdpdCountCmd(ddpd_iterations) ==
    ":CONF:DDPD:COUN " \o ToString(ddpd_iterations) \o "; *OPC?"

DdpdStartCmd == ":CONF:DDPD:STAR; *OPC?"

\* faulty variant of the iterative configuration: the run is started before
\* the iteration count is set
IterativeDpdConfigure_StartBeforeCount(ddpd_iterations) ==
    LET by == "perform_iterative_dpd" IN
    <<Q("CONF:DDPD:STAT ON; *OPC?", by),
      Q("CONF:DDPD:TRAD 100; *OPC?", by),
      Q(DdpdStartCmd, by),
      Q(DdpdCountCmd(ddpd_iterations), by)>>

\* perform_iterative_dpd, "Configure Iterative DPD"
IterativeDpdConfigure(ddpd_iterations) ==
    LET by == "perform_iterative_dpd" IN
    <<Q("CONF:DDPD:STAT ON; *OPC?", by),
      Q("CONF:DDPD:TRAD 100; *OPC?", by),
      Q(DdpdCountCmd(ddpd_iterations), by),
      Q(DdpdStartCmd, by)>>

\* perform_iterative_dpd, "EVM measurement" and "ACLR measurement"
IterativeDpdMeasure ==
    LET by == "perform_iterative_dpd" IN
    <<Q("INST:SEL \"5G NR\"; *OPC?", by),
      Q("CONF:NR5G:MEAS EVM; *OPC?", by),
      Q("INIT:IMM; *OPC?", by),
      Q("INIT:IMM; *OPC?", by),
      F(PowerCmd, by, "vsa_power"),
      F(EvmCmd, by, "evm"),
      Q("CONF:NR5G:MEAS ACLR; *OPC?", by),
      Q("INIT:IMM;*OPC?", by),
      Stmt("aclr", AclrCmd, by, "")>>

\* faulty variant of the iterative teardown: the generator connection is
\* left open
IterativeDpdTeardown_ConnectionLeftOpen ==
    LET by == "perform_iterative_dpd" IN
    <<Q(":CONF:DDPD:STAT OFF; *OPC?", by),
      Q("CONF:GEN:CONT:STAT OFF; *OPC?", by)>>

\* perform_iterative_dpd, the commands between the ACLR capture and the
\* return
IterativeDpdTeardown ==
    LET by == "perform_iterative_dpd" IN
    <<Q(":CONF:DDPD:STAT OFF; *OPC?", by),
      Q("CONF:GEN:CONT:STAT OFF; *OPC?", by),
      Q("CONF:GEN:CONN:STAT OFF; *OPC?", by)>>

perform_iterative_dpd(ddpd_iterations) ==
    IterativeDpdSelect \o IterativeDpdConfigure(ddpd_iterations)
    \o ServoStmts \o IterativeDpdMeasure \o IterativeDpdTeardown
    \o Return("perform_iterative_dpd")

\* perform_gmp_dpd, the commands before "Select amplifier + run DDPD as base"
GmpDpdSelect ==
    LET by == "perform_gmp_dpd" IN
    <<OPC("INST:SEL \"Amplifier\"", by),
      Q("CONF:GEN:CONN:STAT ON; *OPC?", by),
      Q("CONF:GEN:CONT:STAT ON; *OPC?", by),
      Q("CONF:SETT; *OPC?", by),
      Q(":CONF:REFS:CGW:READ; *OPC?", by)>>

\* perform_gmp_dpd, "Select amplifier + run DDPD as base"
GmpDdpdBase(ddpd_iterations) ==
    LET by == "perform_gmp_dpd" IN
    <<OPC("INST:SEL \"Amplifier\"", by),
      Q("CONF:DDPD:STAT ON; *OPC?", by),
      Q("CONF:DDPD:TRAD 100; *OPC?", by),
      Q(DdpdCountCmd(ddpd_iterations), by),
      Q(DdpdStartCmd, by)>>

\* perform_gmp_dpd, "GMP-specific configuration"
GmpModel ==
    LET by == "perform_gmp_dpd" IN
    <<Q("CONF:MDPD:STAT ON; *OPC?", by),
      Q("CALC:MDPD:MOD;*OPC?", by),
      Q("CONF:GMP:LAG:ORD:XTER 1;*OPC?", by),
      Q("CONF:GMP:LEAD:ORD:XTER 1;*OPC?", by),
      Q("CONF:MDPD:ITER 5;*OPC?", by),
      Q(":CALC:MDPD:MOD;*OPC?", by),
      Q(":CONF:MDPD:WAV:UPD;*OPC?", by),
      Q("CONF:MDPD:WAV:SEL MDPD;*OPC?", by)>>

\* perform_gmp_dpd, the generator released before the servos
GmpRelease ==
    LET by == "perform_gmp_dpd" IN
    <<Q("CONF:GEN:CONT:STAT OFF; *OPC?", by),
      Q("CONF:GEN:CONN:STAT OFF; *OPC?", by)>>

\* faulty variant of the GMP configuration: the model is configured and
\* computed before the iterative run it builds on
GmpDpdConfigure_ModelFirst(ddpd_iterations) ==
    GmpModel \o GmpDdpdBase(ddpd_iterations) \o GmpRelease

GmpDpdConfigure(ddpd_iterations) ==
    GmpDdpdBase(ddpd_iterations) \o GmpModel \o GmpRelease

\* perform_gmp_dpd, "EVM measurement" and "ACLR measurement"
GmpDpdMeasure ==
    LET by == "perform_gmp_dpd" IN
    <<Q("INST:SEL \"5G NR\"; *OPC?", by),
      Q("CONF:NR5G:MEAS EVM; *OPC?", by),
      Q("INIT:IMM; *OPC?", by),
      F(PowerCmd, by, "vsa_power"),
      F(EvmCmd, by, "evm"),
      W("CONF:NR5G:MEAS ACLR", by),
      W("INIT:IMM;*WAI", by),
      Stmt("aclr", AclrCmd, by, "")>>

\* faulty variant of the GMP teardown: the NR context is selected before the
\* waveform selection and the DPD application are reset
GmpDpdTeardown_InNRContext ==
    LET by == "perform_gmp_dpd" IN
    <<Q(":INST:SEL \"Amplifier\"; *OPC?", by),
      Q(":INST:SEL \"5G NR\"; *OPC?", by),
      Q(":CONF:MDPD:WAV:SEL REF; *OPC?", by),
      Q(":CONF:DDPD:APPL:STAT OFF; *OPC?", by),
      Q(":CONF:NR5G:MEAS EVM; *OPC?", by),
      Q(":CONF:NR5G:DL:CC1:RFUC:STAT OFF; *OPC?", by),
      Q("CONF:GEN:CONT:STAT OFF; *OPC?", by),
      Q("CONF:GEN:CONN:STAT OFF; *OPC?", by)>>

\* perform_gmp_dpd, "Restore EVM mode"
GmpDpdTeardown ==
    LET by == "perform_gmp_dpd" IN
    <<Q(":INST:SEL \"Amplifier\"; *OPC?", by),
      Q(":CONF:MDPD:WAV:SEL REF; *OPC?", by),
      Q(":CONF:DDPD:APPL:STAT OFF; *OPC?", by),
      Q(":INST:SEL \"5G NR\"; *OPC?", by),
      Q(":CONF:NR5G:MEAS EVM; *OPC?", by),
      Q(":CONF:NR5G:DL:CC1:RFUC:STAT OFF; *OPC?", by),
      Q("CONF:GEN:CONT:STAT OFF; *OPC?", by),
      Q("CONF:GEN:CONN:STAT OFF; *OPC?", by)>>

\* faulty variant of perform_gmp_dpd: the servos run between the iterative
\* run and the GMP model configuration
perform_gmp_dpd_ServoBeforeModel(ddpd_iterations) ==
    GmpDpdSelect \o GmpDdpdBase(ddpd_iterations) \o ServoStmts
    \o GmpModel \o GmpRelease \o GmpDpdMeasure \o GmpDpdTeardown
    \o Return("perform_gmp_dpd")

perform_gmp_dpd(ddpd_iterations) ==
    GmpDpdSelect \o GmpDpdConfigure(ddpd_iterations) \o ServoStmts
    \o GmpDpdMeasure \o GmpDpdTeardown \o Return("perform_gmp_dpd")

Phases == {"measure_evm", "perform_single_dpd", "perform_iterative_dpd",
           "perform_gmp_dpd"}

Body(c, l) ==
    CASE c.method = "measure_evm" -> measure_evm
      [] c.method = "perform_single_dpd" -> perform_single_dpd
      [] c.method = "perform_iterative_dpd" -> perform_iterative_dpd(l.ddpd_iterations)
      [] c.method = "perform_gmp_dpd" -> perform_gmp_dpd(l.ddpd_iterations)
      [] c.method = "write_command_opc" ->
            <<OPC(c.command, "caller")>> \o Return("write_command_opc")
      [] c.method = "queryFloat" ->
            <<F(c.command, "caller", "value")>> \o Return("queryFloat")
      [] c.method = "close" ->
            <<Stmt("close", "close", "close", "")>> \o Return("close")

-----------------------------------------------------------------------------
(* Pure helpers of the statements *)

\* faulty variant of queryFloat: an unreadable reply is reported as 0.0
queryFloat_ZeroOnError(impl, queryRaised, reply) ==
    IF queryRaised
        THEN IF impl = "vsa" THEN [raised |-> FALSE, val |-> NaN]
                             ELSE [raised |-> TRUE, val |-> NaN]
        ELSE IF PyFloat(reply).ok
                THEN [raised |-> FALSE, val |-> PyFloat(reply).val]
                ELSE [raised |-> FALSE, val |-> [m |-> 0, e |-> 0]]

\* queryFloat(command): float(self.instr.query(command)) under try/except.
\* vsa.py catches Exception, vsa_copy.py catches ValueError only.
queryFloat(impl, queryRaised, reply) ==
    IF queryRaised
        THEN IF impl = "vsa" THEN [raised |-> FALSE, val |-> NaN]
                             ELSE [raised |-> TRUE, val |-> NaN]
        ELSE IF PyFloat(reply).ok
                THEN [raised |-> FALSE, val |-> PyFloat(reply).val]
                ELSE [raised |-> FALSE, val |-> NaN]

\* chan_pow, adj_lower, adj_upper = [float(x) for x in aclr_list.split(',')[:3]]
AclrUnpack(aclr_list) ==
    LET fields == Split(aclr_list)
        first == SubSeq(fields, 1, IF Len(fields) < 3 THEN Len(fields) ELSE 3)
    IN  IF Len(first) = 3 /\ \A i \in 1..3 : PyFloat(first[i]).ok
            THEN [ok |-> TRUE,
                  chan_pow |-> PyFloat(first[1]).val,
                  adj_lower |-> PyFloat(first[2]).val,
                  adj_upper |-> PyFloat(first[3]).val]
            ELSE [ok |-> FALSE, chan_pow |-> Unset, adj_lower |-> Unset,
                  adj_upper |-> Unset]

\* faulty variant of the returned tuple: the two adjacent-channel values are
\* returned in each other's position
PhaseResult_AdjacentSwapped(l) ==
    [output_power |-> l.vsa_power,
     evm |-> l.evm,
     channel_power |-> l.chan_pow,
     adjacent_channel_lower |-> l.adj_upper,
     adjacent_channel_upper |-> l.adj_lower,
     servo_iterations |-> l.servo_loops,
     external_servo_time |-> l.ext_servo_time,
     internal_servo_time |-> l.k18_time]

\* the tuple a phase returns, by position, under the names of the record
PhaseResult(l) ==
    [output_power |-> l.vsa_power,
     evm |-> l.evm,
     channel_power |-> l.chan_pow,
     adjacent_channel_lower |-> l.adj_lower,
     adjacent_channel_upper |-> l.adj_upper,
     servo_iterations |-> l.servo_loops,
     external_servo_time |-> l.ext_servo_time,
     internal_servo_time |-> l.k18_time]

ReturnValue(c, l) ==
    IF c.method \in Phases THEN <<PhaseResult(l)>>
    ELSE IF c.method = "queryFloat" THEN <<l.value>>
    ELSE <<>>

-----------------------------------------------------------------------------
(* Calls *)

PhaseCalls == [method : Phases, command : {""}, impl : {"vsa"}]

\* the frame of a phase called with these arguments
Frame(flagExt, flagK18, regulator, a) ==
    [NoLocals EXCEPT !.USE_POWER_SERVO = flagExt,
                     !.USE_K18_POWER_SERVO = flagK18,
                     !.power_servo = regulator,
                     !.target_output = a.target_output,
                     !.servo_iterations = a.servo_iterations,
                     !.ddpd_iterations = a.ddpd_iterations]

\* replies drawn for queryFloat called on its own: every text of up to
\* MaxLen characters, and the two replies of the documented examples
ReplyAlphabet == {"0", "1", "5", ".", "-", " ", "R"}
Texts(n) == UNION {[1..k -> ReplyAlphabet] : k \in 0..n}
Str_12_345 == <<"1", "2", ".", "3", "4", "5">>
AnyReplies(cmd) == Texts(MaxLen) \cup {Str_12_345, Str_ERR}

QueryFloatCalls ==
    [method : {"queryFloat"},
     command : {EvmCmd}, impl : {"vsa", "vsa_copy"}]

OpcCommands == {"INST:SEL \"Amplifier\"", ":CONF:DDPD:STAR"}

OpcCalls ==
    [method : {"write_command_opc"},
     command : OpcCommands, impl : {"vsa"}]

\* write_command_opc of each of the three analyzer modules: vsa.py, the
\* backup of 20250915_1515 and vsa_copy.py
OpcImplementations == {"vsa", "backup", "vsa_copy"}

OpcVariantCalls ==
    [method : {"write_command_opc"},
     command : OpcCommands, impl : OpcImplementations]

\* close() of the analyzer class (vsa.py) and of the generator class (vsg.py)
CloseCalls == [method : {"close"}, command : {""}, impl : {"vsa", "vsg"}]

NoCall == [method |-> "", command |-> "", impl |-> "vsa"]

\* An exception as the caller receives it: its kind ("transport" for what the
\* session raises, "ValueError" for int() and float(), "regulator" for the
\* external regulator), the command text an executor-built error would carry
\* (no method builds one: every handler re-raises what it caught), and the
\* logger.error records written by the handlers it passed, innermost first.
NoError == [kind |-> "", command |-> "", logged |-> <<>>]

\* logger.error of the except clause of method `by`; only write_command_opc
\* puts its command into the message
Logged(by, command) == [by |-> by, command |-> command]

\* the except clauses an exception raised at statement st passes on its way
\* out of call c
Handlers(st, c) ==
    (IF st.by = "write_command_opc" THEN <<Logged(st.by, st.arg)>>
     ELSE IF st.by \in {"K18_power_servo", "power_servo"}
        THEN <<Logged(st.by, "")>>
     ELSE <<>>)
    \o (IF c.method \in Phases \/ (c.method = "close" /\ c.impl = "vsa")
            THEN <<Logged(c.method, "")>>
            ELSE <<>>)

Init ==
    /\ defaults \in [USE_POWER_SERVO : BOOLEAN, USE_K18_POWER_SERVO : BOOLEAN]
    /\ call = NoCall
    /\ todo = <<>>
    /\ status = "idle"
    /\ err = NoError
    /\ loc = NoLocals
    /\ result = <<>>
    /\ log = <<>>
    /\ inst \in [ctx : {"Amplifier"}, meas : {"EVM"}, esr : {0, 1}, opcLeft : {0}]

Running(op) == status = "running" /\ todo # <<>> /\ Head(todo).op = op

\* the except clauses of the methods: log and re-raise what was caught
Raise(kind) ==
    /\ todo' = <<>>
    /\ status' = "raised"
    /\ err' = [kind |-> kind, command |-> "",
               logged |-> Handlers(Head(todo), call)]
    /\ result' = <<>>

Begin(c, frame) ==
    /\ status = "idle"
    /\ call' = c
    /\ todo' = Body(c, frame)
    /\ status' = "running"
    /\ err' = NoError
    /\ loc' = frame
    /\ result' = <<>>
    /\ log' = <<>>
    /\ UNCHANGED <<defaults, inst>>

CallPhase ==
    \E c \in PhaseCalls, flagExt \in ArgValues, flagK18 \in ArgValues,
       regulator \in Regulators, a \in ArgProfiles :
        Begin(c, Frame(flagExt, flagK18, regulator, a))

CallWriteCommandOpc == \E c \in OpcCalls : Begin(c, NoLocals)

CallQueryFloat == \E c \in QueryFloatCalls : Begin(c, NoLocals)

CallClose == \E c \in CloseCalls : Begin(c, NoLocals)

\* self.instr.query(cmd), reply not used
Query ==
    /\ Running("query")
    /\ LET st == Head(todo) IN
       \/ /\ log' = Append(log, Entry("query", st.cmd, st.by, TRUE, Str_1))
          /\ inst' = AfterOpcQuery(inst, st.cmd)
          /\ todo' = Tail(todo)
          /\ UNCHANGED <<status, err, result>>
       \/ /\ log' = Append(log, Entry("query", st.cmd, st.by, FALSE, <<>>))
          /\ Raise("transport")
          /\ UNCHANGED inst
    /\ UNCHANGED <<defaults, call, loc>>

\* self.instr.write(cmd)
Write ==
    /\ Running("write")
    /\ LET st == Head(todo) IN
       \/ /\ log' = Append(log, Entry("write", st.cmd, st.by, TRUE, <<>>))
          /\ inst' = Effect(inst, st.cmd)
          /\ todo' = Tail(todo)
          /\ UNCHANGED <<status, err, result>>
       \/ /\ log' = Append(log, Entry("write", st.cmd, st.by, FALSE, <<>>))
          /\ Raise("transport")
          /\ UNCHANGED inst
    /\ UNCHANGED <<defaults, call, loc>>

\* self.write_command_opc(cmd): enter the method
EnterOpc ==
    /\ Running("opc")
    /\ todo' = write_command_opc(Head(todo).cmd) \o Tail(todo)
    /\ UNCHANGED <<defaults, call, status, err, loc, result, log, inst>>

\* variant of the instrument for which the proviso of termination fails: the
\* firmware may hang on a command a phase issues
OperationLengths_MayHang(c) == (1..MaxPolls) \cup {Never}

\* the status queries the instrument needs to complete the command.  For
\* write_command_opc called on its own: any number from 1 to MaxPolls, or
\* never (the firmware hangs).  Inside a phase the instrument is the slow
\* one, which needs MaxPolls of them; a status bit left over from earlier
\* activity still ends the wait at the first query.
OperationLengths(c) ==
    IF c.method = "write_command_opc"
        THEN (1..MaxPolls) \cup {Never}
        ELSE {MaxPolls}

\* self.instr.write(f'{command};*OPC')
WriteOpc ==
    /\ Running("write_opc")
    /\ LET st == Head(todo)
           text == st.cmd \o ";*OPC" IN
       \/ \E n \in OperationLengths(call) :
            /\ log' = Append(log, Entry("write", text, st.by, TRUE, <<>>))
            /\ inst' = StartOperation(Effect(inst, text), n)
            /\ todo' = Tail(todo)
            /\ UNCHANGED <<status, err, result>>
       \/ /\ log' = Append(log, Entry("write", text, st.by, FALSE, <<>>))
          /\ Raise("transport")
          /\ UNCHANGED inst
    /\ UNCHANGED <<defaults, call, loc>>

\* the wait between two status queries: sleep(0.2) in vsa.py and in the
\* backup, which import sleep from time; time.sleep(0.2) in vsa_copy.py, where
\* time is the function of 'from time import time' and has no attribute sleep
PollWait(impl) == IF impl = "vsa_copy" THEN "AttributeError" ELSE "slept"

\* the texts that may come back for '*ESR?': the register as decimal text,
\* and, for write_command_opc called on its own, a reply that is no integer
\* (a garbled or misrouted answer)
EsrReplies(c, i) ==
    {RegisterText(EsrReply(i))}
    \cup (IF c.method = "write_command_opc" THEN {Str_ERR} ELSE {})

\* the last position up to j that is not a status query, 0 if there is none
RECURSIVE PollRunStart(_)
PollRunStart(j) ==
    IF j >= 1 /\ log[j].io = "query" /\ log[j].cmd = "*ESR?"
        THEN PollRunStart(j - 1)
        ELSE j

\* the number of status queries at the end of the log
TrailingPolls == Len(log) - PollRunStart(Len(log))

\* while (int(self.instr.query('*ESR?')) & 1) != 1: sleep(0.2)
\* On an instrument that hangs the loop does not end; it is followed for
\* MaxWait status queries.
Poll ==
    /\ Running("poll")
    /\ inst.opcLeft = Never => TrailingPolls < MaxWait
    /\ LET st == Head(todo) IN
       \/ \E reply \in EsrReplies(call, inst) :
          /\ log' = Append(log, Entry("query", "*ESR?", st.by, TRUE, reply))
          /\ inst' = AfterEsr(inst)
          /\ CASE PollOutcome(reply) = "again" /\ PollWait(call.impl) = "slept" ->
                    UNCHANGED <<todo, status, err, result>>
               [] PollOutcome(reply) = "again" /\ PollWait(call.impl) # "slept" ->
                    Raise(PollWait(call.impl))
               [] PollOutcome(reply) = "done" ->
                    todo' = Tail(todo) /\ UNCHANGED <<status, err, result>>
               [] OTHER -> Raise("ValueError")
       \/ /\ log' = Append(log, Entry("query", "*ESR?", st.by, FALSE, <<>>))
          /\ Raise("transport")
          /\ UNCHANGED inst
    /\ UNCHANGED <<defaults, call, loc>>

\* use_power_servo, use_k18_power_servo = self._resolve_servo_flags(...)
Resolve ==
    /\ Running("resolve")
    /\ LET r == _resolve_servo_flags(loc.USE_POWER_SERVO, loc.USE_K18_POWER_SERVO) IN
       loc' = [loc EXCEPT !.use_power_servo = r.use_power_servo,
                          !.use_k18_power_servo = r.use_k18_power_servo]
    /\ todo' = Tail(todo)
    /\ UNCHANGED <<defaults, call, status, err, result, log, inst>>

\* the parameters read by no statement after the call of _run_servos
AfterRunServos(l) ==
    [l EXCEPT !.USE_POWER_SERVO = Dead, !.USE_K18_POWER_SERVO = Dead,
              !.ddpd_iterations = DeadNum]

\* the parameters read by no statement after the servo helpers built theirs
AfterServoSetup(l) ==
    [l EXCEPT !.power_servo = Dead, !.target_output = DeadNum,
              !.servo_iterations = DeadNum]

\* self._run_servos(...): enter the method
RunServos ==
    /\ Running("servos")
    /\ LET l == [loc EXCEPT !.servo_loops = 0, !.ext_servo_time = 0,
                            !.k18_time = 0] IN
       loc' = IF loc.use_k18_power_servo
                THEN AfterRunServos(l)
                ELSE AfterServoSetup(AfterRunServos(l))
    /\ todo' = _run_servos(loc.power_servo, loc.target_output,
                           loc.servo_iterations,
                           loc.use_power_servo, loc.use_k18_power_servo)
                \o Tail(todo)
    /\ UNCHANGED <<defaults, call, status, err, result, log, inst>>

\* servo_loops, ext_servo_time, _ = self.power_servo(...): the iteration count
\* the regulator returned and the time measured around its call
PowerServoReturn(l, servo_iterations, servo_time) ==
    [l EXCEPT !.servo_loops = servo_iterations, !.ext_servo_time = servo_time]

\* faulty variant of the K18 return: the K18 run is added to the iteration
\* count of the external regulator
K18Return_CountedAsIteration(l) ==
    [l EXCEPT !.k18_time = l.elapsed, !.servo_loops = @ + 1]

\* k18_time = self.K18_power_servo(...): the elapsed time of the start query
K18Return(l) == [l EXCEPT !.k18_time = l.elapsed]

\* self.power_servo(...): power_servo.servo_power(...) timed; the entry of
\* the log keeps the iteration count the regulator returned, as text
PowerServo ==
    /\ Running("servo_power")
    /\ LET st == Head(todo) IN
       \/ \E n \in 0..MaxServoIter, t \in ElapsedValues :
            /\ log' = Append(log, Entry("servo_power", st.cmd, st.by, TRUE,
                                        RegisterText(n)))
            /\ loc' = PowerServoReturn(loc, n, t)
            /\ todo' = Tail(todo)
            /\ UNCHANGED <<status, err, result>>
       \/ /\ log' = Append(log, Entry("servo_power", st.cmd, st.by, FALSE, <<>>))
          /\ Raise("regulator")
          /\ UNCHANGED loc
    /\ UNCHANGED <<defaults, call, inst>>

\* K18_power_servo: the timed start query
K18Start ==
    /\ Running("k18_start")
    /\ LET st == Head(todo) IN
       \/ \E t \in ElapsedValues :
            /\ log' = Append(log, Entry("query", st.cmd, st.by, TRUE, Str_1))
            /\ inst' = AfterOpcQuery(inst, st.cmd)
            /\ loc' = AfterServoSetup([loc EXCEPT !.elapsed = t])
            /\ todo' = Tail(todo)
            /\ UNCHANGED <<status, err, result>>
       \/ /\ log' = Append(log, Entry("query", st.cmd, st.by, FALSE, <<>>))
          /\ Raise("transport")
          /\ UNCHANGED <<loc, inst>>
    /\ UNCHANGED <<defaults, call>>

\* K18_power_servo: read the power level back and return elapsed
K18Level ==
    /\ Running("k18_level")
    /\ LET st == Head(todo) IN
       \/ \E level \in CannedReplies(st.cmd) :
          /\ log' = Append(log, Entry("query", st.cmd, st.by, TRUE, level))
          /\ inst' = AfterOpcQuery(inst, st.cmd)
          /\ loc' = K18Return(loc)
          /\ todo' = Tail(todo)
          /\ UNCHANGED <<status, err, result>>
       \/ /\ log' = Append(log, Entry("query", st.cmd, st.by, FALSE, <<>>))
          /\ Raise("transport")
          /\ UNCHANGED <<loc, inst>>
    /\ UNCHANGED <<defaults, call>>

\* x = self.queryFloat(cmd), the reply drawn from `replies`
Fetch(replies) ==
    /\ Running("fetch")
    /\ LET st == Head(todo) IN
       \E queryRaised \in BOOLEAN, reply \in replies :
          LET r == queryFloat(call.impl, queryRaised, reply) IN
          /\ queryRaised => reply = CHOOSE x \in replies : TRUE
          /\ log' = Append(log, Entry("query", st.cmd, "queryFloat", ~queryRaised,
                                      IF queryRaised THEN <<>> ELSE reply))
          /\ IF r.raised
                THEN Raise("transport") /\ UNCHANGED loc
                ELSE /\ loc' = [loc EXCEPT ![st.arg] = r.val]
                     /\ todo' = Tail(todo)
                     /\ UNCHANGED <<status, err, result>>
    /\ UNCHANGED <<defaults, call, inst>>

FetchCanned == Fetch(CannedReplies(Head(todo).cmd))

FetchAny == Fetch(AnyReplies(Head(todo).cmd))

\* aclr_list = self.instr.query(cmd); split, float, unpack
Aclr ==
    /\ Running("aclr")
    /\ LET st == Head(todo) IN
       \/ \E reply \in CannedReplies(st.cmd) :
            LET r == AclrUnpack(reply) IN
            /\ log' = Append(log, Entry("query", st.cmd, st.by, TRUE, reply))
            /\ IF r.ok
                  THEN /\ loc' = [loc EXCEPT !.chan_pow = r.chan_pow,
                                             !.adj_lower = r.adj_lower,
                                             !.adj_upper = r.adj_upper]
                       /\ todo' = Tail(todo)
                       /\ UNCHANGED <<status, err, result>>
                  ELSE Raise("ValueError") /\ UNCHANGED loc
       \/ /\ log' = Append(log, Entry("query", st.cmd, st.by, FALSE, <<>>))
          /\ Raise("transport")
          /\ UNCHANGED loc
    /\ UNCHANGED <<defaults, call, inst>>

\* self.instr.close() in vsa.py, self.vsg.sock.close() in vsg.py
Close ==
    /\ Running("close")
    /\ LET st == Head(todo) IN
       \/ /\ log' = Append(log, Entry("close", st.cmd, st.by, TRUE, <<>>))
          /\ todo' = Tail(todo)
          /\ UNCHANGED <<status, err, result>>
       \/ /\ log' = Append(log, Entry("close", st.cmd, st.by, FALSE, <<>>))
          /\ Raise("transport")
    /\ UNCHANGED <<defaults, call, loc, inst>>

\* return (...)
Finish ==
    /\ Running("return")
    /\ result' = ReturnValue(call, loc)
    /\ status' = "returned"
    /\ todo' = <<>>
    /\ UNCHANGED <<defaults, call, err, loc, log, inst>>

\* the caller takes the returned record (or the exception); the locals and
\* the record are discarded, the session and the globals stay.  Nothing is
\* called on a closed session.
Consume ==
    /\ status \in {"returned", "raised"}
    /\ call.method # "close"
    /\ status' = "idle"
    /\ call' = NoCall
    /\ err' = NoError
    /\ loc' = NoLocals
    /\ result' = <<>>
    /\ log' = <<>>
    /\ inst' = Settle(inst)
    /\ UNCHANGED <<defaults, todo>>

Next ==
    \/ CallPhase
    \/ CallWriteCommandOpc
    \/ CallClose
    \/ Query
    \/ Write
    \/ EnterOpc
    \/ WriteOpc
    \/ Poll
    \/ Resolve
    \/ RunServos
    \/ PowerServo
    \/ K18Start
    \/ K18Level
    \/ FetchCanned
    \/ Aclr
    \/ Close
    \/ Finish
    \/ Consume

Spec == Init /\ [][Next]_vars

\* queryFloat on its own, over every short reply text
NextQF ==
    \/ CallQueryFloat
    \/ FetchAny
    \/ Finish
    \/ Consume

SpecQF == Init /\ [][NextQF]_vars

\* write_command_opc of each of the three modules on its own
CallWriteCommandOpcVariant == \E c \in OpcVariantCalls : Begin(c, NoLocals)

NextOpc ==
    \/ CallWriteCommandOpcVariant
    \/ EnterOpc
    \/ Write
    \/ WriteOpc
    \/ Poll
    \/ Finish
    \/ Consume

SpecOpc == Init /\ [][NextOpc]_vars

\* One phase call, followed to its end.  The thread of the caller executes
\* the statements one after the other, the instrument answers every query
\* and the regulator returns: every step of the running call is taken at some
\* time.  Whether a phase is called at all is left to the caller.
CallPhaseWithFlags ==
    \E c \in PhaseCalls, flagExt \in {"True", "False"}, flagK18 \in {"True", "False"} :
        Begin(c, Frame(flagExt, flagK18, "obj", Profile1))

Step ==
    \/ Query
    \/ Write
    \/ EnterOpc
    \/ WriteOpc
    \/ Poll
    \/ Resolve
    \/ RunServos
    \/ PowerServo
    \/ K18Start
    \/ K18Level
    \/ FetchCanned
    \/ Aclr
    \/ Finish

NextPhase ==
    \/ CallPhaseWithFlags
    \/ Step

\* the module as loaded without a test_inputs.json: both defaults True
InitPhase ==
    /\ Init
    /\ defaults = [USE_POWER_SERVO |-> TRUE, USE_K18_POWER_SERVO |-> TRUE]

SpecPhase == InitPhase /\ [][NextPhase]_vars /\ WF_vars(Step)

-----------------------------------------------------------------------------
(* Properties *)

PhaseReturned == status = "returned" /\ call.method \in Phases
InPhase == status # "idle" /\ call.method \in Phases

\* what the per-call arguments and the defaults are documented to resolve to
WantExternal ==
    \/ loc.USE_POWER_SERVO = "True"
    \/ loc.USE_POWER_SERVO = "None" /\ defaults.USE_POWER_SERVO
WantInternal ==
    \/ loc.USE_K18_POWER_SERVO = "True"
    \/ loc.USE_K18_POWER_SERVO = "None" /\ defaults.USE_K18_POWER_SERVO

\* the flags as the running phase resolved them
BothOff == InPhase /\ ~loc.use_power_servo /\ ~loc.use_k18_power_servo
BothOn == InPhase /\ loc.use_power_servo /\ loc.use_k18_power_servo

IsPoll(e) == e.io = "query" /\ e.cmd = "*ESR?"
IsOpcWrite(e) == e.io = "write" /\ e.by = "write_command_opc"
                    /\ e.cmd \notin {"*ESE 1", "*SRE 32"}
BitZero(e) == e.ok /\ PyInt(e.reply).ok /\ PyInt(e.reply).val % 2 = 1

\* the first position from j on that is not a status query
RECURSIVE PollRunEnd(_)
PollRunEnd(j) ==
    IF j <= Len(log) /\ IsPoll(log[j]) THEN PollRunEnd(j + 1) ELSE j

\* the status queries that directly follow the write at position w
PollsAfter(w) == (w + 1)..(PollRunEnd(w + 1) - 1)

\* write_command_opc entered at the write at position w has returned
ExecuteReturned(w) ==
    LET last == PollRunEnd(w + 1) - 1 IN
    \/ last < Len(log)
    \/ /\ last = Len(log)
       /\ status \in {"running", "returned"}
       /\ ~(todo # <<>> /\ Head(todo).op = "poll")

\* C1: write_command_opc returns only after a status reply with bit 0 set:
\* when it has returned, the replies before the last one all had bit 0 clear
\* and the last one had it set, so with the bit first set on the N-th status
\* query exactly N (at least N) status queries were issued.
C1_ReturnsOnlyAfterOpcBit ==
    \A w \in 1..Len(log) :
        (IsOpcWrite(log[w]) /\ log[w].ok /\ ExecuteReturned(w)) =>
            LET polls == PollsAfter(w) IN
            /\ polls # {}
            /\ \A j \in polls :
                    BitZero(log[j]) <=> (j = w + Cardinality(polls))

C1_Witness ==
    /\ call.method = "write_command_opc"
    /\ status = "returned"
    /\ Len(log) = 5
    /\ IsPoll(log[4]) /\ ~BitZero(log[4])
    /\ IsPoll(log[5]) /\ BitZero(log[5])

\* C2: when write_command_opc returns normally the command it issued has
\* completed on the instrument, whatever the event status register held
\* when it was called.
C2_CommandCompleteOnReturn ==
    (call.method = "write_command_opc" /\ status = "returned") =>
        inst.opcLeft = 0

\* C3: when a phase returns a result the last selected context is 5G NR and
\* the last selected measurement type is EVM.
C3_HomeStateOnReturn ==
    PhaseReturned => (inst.ctx = "NR" /\ inst.meas = "EVM")

\* the replies the session gave to the three measurement queries
Answered(cmd) == \E i \in 1..Len(log) : log[i].cmd = cmd /\ log[i].ok
ReplyTo(cmd) == log[CHOOSE i \in 1..Len(log) : log[i].cmd = cmd /\ log[i].ok].reply

Num(m, e) == [m |-> m, e |-> e]

\* C4: a phase run against canned replies returns exactly the canned values:
\* output_power is the power reply (10.0), evm the EVM reply (1.23, or NaN
\* for an unreadable reply, never zero), and channel_power, lower and upper
\* the first, second and third ACLR fields (-5.0, -45.0, -46.0), in order.
C4_ResultEchoesReplies ==
    (PhaseReturned /\ Answered(PowerCmd) /\ Answered(EvmCmd) /\ Answered(AclrCmd)) =>
        LET r == result[1] IN
        /\ ReplyTo(PowerCmd) = Str_10_0 => r.output_power = Num(10, 0)
        /\ ReplyTo(EvmCmd) = Str_1_23 => r.evm = Num(123, 2)
        /\ ReplyTo(EvmCmd) = Str_ERR => r.evm = NaN
        /\ ReplyTo(AclrCmd) = Str_ACLR =>
                /\ r.channel_power = Num(-5, 0)
                /\ r.adjacent_channel_lower = Num(-45, 0)
                /\ r.adjacent_channel_upper = Num(-46, 0)
        /\ ReplyTo(PowerCmd) \in {Str_10_0}
        /\ ReplyTo(EvmCmd) \in {Str_1_23, Str_ERR}
        /\ ReplyTo(AclrCmd) = Str_ACLR

C4_Witness ==
    /\ PhaseReturned
    /\ call.method = "perform_iterative_dpd"
    /\ Answered(PowerCmd) /\ Answered(EvmCmd) /\ Answered(AclrCmd)
    /\ ReplyTo(EvmCmd) = Str_ERR
    /\ result[1].evm = NaN
    /\ result[1].output_power = Num(10, 0)

\* C5: in every phase, when both servo flags resolve to false, neither the
\* external regulator nor any K18 servo command is issued, and the returned
\* record has servo_iterations = 0 and both servo times 0.0.
C5_NoServoWhenDisabled ==
    BothOff =>
        /\ \A i \in 1..Len(log) :
                log[i].io # "servo_power" /\ log[i].by # "K18_power_servo"
        /\ status = "returned" =>
                /\ result[1].servo_iterations = 0
                /\ result[1].external_servo_time = 0
                /\ result[1].internal_servo_time = 0

C5_Witness ==
    /\ PhaseReturned
    /\ call.method = "perform_gmp_dpd"
    /\ BothOff
    /\ defaults.USE_POWER_SERVO
    /\ result[1].servo_iterations = 0

Resolved == call.method \in Phases /\ Running("servos")

\* C7: each servo flag is resolved on its own: a supplied argument (True or
\* False) is taken whatever the default, an omitted one takes the process-
\* wide default, whatever is supplied for the other flag; an explicit False
\* overrides a default of True.
C7_FlagsResolvedIndependently ==
    Resolved =>
        /\ loc.use_power_servo = WantExternal
        /\ loc.use_k18_power_servo = WantInternal
        /\ (loc.USE_POWER_SERVO = "False" /\ defaults.USE_POWER_SERVO)
                => ~loc.use_power_servo
        /\ (loc.USE_K18_POWER_SERVO = "False" /\ defaults.USE_K18_POWER_SERVO)
                => ~loc.use_k18_power_servo

C7_Witness ==
    /\ Resolved
    /\ loc.USE_POWER_SERVO = "False" /\ defaults.USE_POWER_SERVO
    /\ loc.USE_K18_POWER_SERVO = "None" /\ defaults.USE_K18_POWER_SERVO
    /\ ~loc.use_power_servo /\ loc.use_k18_power_servo

QueryFloatEnded ==
    /\ call.method = "queryFloat"
    /\ status \in {"returned", "raised"}
    /\ log[1].ok

\* C8: queryFloat returns NaN and raises nothing when the reply does not
\* parse as a number ("ERR"), and returns exactly the parsed value when the
\* reply is a well-formed number ("12.345" gives 12.345); in vsa.py and in
\* vsa_copy.py.
C8_QueryFloatNaNOrValue ==
    QueryFloatEnded =>
        LET reply == log[1].reply IN
        /\ status = "returned"
        /\ result = <<IF PyFloat(reply).ok THEN PyFloat(reply).val ELSE NaN>>
        /\ reply = Str_ERR => result = <<NaN>>
        /\ reply = Str_12_345 => result = <<Num(12345, 3)>>
        /\ reply = <<"-", ".", "5">> => result = <<Num(-5, 1)>>
        /\ reply = <<"1", ".", " ">> => result = <<Num(1, 0)>>
        /\ reply = <<"1", " ", "1">> => result = <<NaN>>
        /\ reply \in {<<>>, <<".">>, <<"-">>, <<"-", "-", "1">>} => result = <<NaN>>

C8_Witness ==
    /\ QueryFloatEnded
    /\ call.impl = "vsa_copy"
    /\ log[1].reply = Str_ERR
    /\ status = "returned" /\ result = <<NaN>>

\* C9: in every phase a failure of any sub-step aborts the phase and is
\* raised to the caller; no result record is returned for a call in which an
\* interaction failed.
C9_FailureAbortsPhase ==
    (InPhase /\ \E i \in 1..Len(log) : ~log[i].ok) =>
        (status = "raised" /\ result = <<>>)

\* C10: when an interaction fails inside a phase, the failing command is the
\* last command the call issues (no retry, no teardown after it) and the
\* call ends there.
C10_FailingCommandIsLast ==
    InPhase =>
        \A i \in 1..Len(log) :
            ~log[i].ok => (i = Len(log) /\ status = "raised")

\* some interaction of the current call failed in the session
SomeFailed == \E i \in 1..Len(log) : ~log[i].ok

\* C11: a transport error raised by a write or a status query inside
\* write_command_opc reaches the caller as an InstrumentCommunicationError
\* that carries the text of the command being executed, and nothing is
\* issued after the failing interaction.
C11_OpcErrorCarriesCommand ==
    (call.method = "write_command_opc" /\ SomeFailed) =>
        /\ status = "raised"
        /\ ~log[Len(log)].ok
        /\ err.kind = "InstrumentCommunicationError"
        /\ err.command = call.command

\* C18: close calls the close of the session exactly once; when that close
\* fails, the failure is logged by close and close is not attempted again.
C18_CloseOnceFailureLogged ==
    (call.method = "close" /\ status \in {"returned", "raised"}) =>
        /\ Cardinality({i \in 1..Len(log) : log[i].io = "close"}) = 1
        /\ SomeFailed =>
                \E k \in 1..Len(err.logged) : err.logged[k].by = "close"

\* the positions of the log at which a command of the set was issued and
\* answered
Issued(cmds) == {i \in 1..Len(log) : log[i].cmd \in cmds /\ log[i].ok}

PolyModeCmd == "CONF:DPD:SHAP:MODE POLY; *OPC?"

\* C12: in the single-DPD phase the Amplifier context is selected before
\* polynomial-shape DPD mode is enabled, and that before the first selection
\* of the NR context: when the mode command is in the log an Amplifier
\* selection precedes it and no NR selection does, and an NR selection in the
\* log is preceded by the mode command.
C12_AmplifierThenPolyThenNR ==
    (InPhase /\ call.method = "perform_single_dpd") =>
        /\ \A i \in Issued({PolyModeCmd}) :
                /\ \E j \in Issued(AmplifierSelects) : j < i
                /\ \A k \in Issued(NRSelects) : i < k
        /\ \A k \in Issued(NRSelects) : \E i \in Issued({PolyModeCmd}) : i < k

C12_Witness ==
    /\ InPhase /\ call.method = "perform_single_dpd"
    /\ Issued(AmplifierSelects) # {}
    /\ Issued({PolyModeCmd}) # {}
    /\ Issued(NRSelects) # {}

\* the position of the ACLR capture in the log
AclrAt == CHOOSE i \in 1..Len(log) : log[i].cmd = AclrCmd /\ log[i].ok

\* C13: in every phase a command switching the measurement type back to EVM
\* is issued exactly once after the ACLR capture and before the phase
\* returns its result.
C13_EvmRestoredOnceAfterAclr ==
    PhaseReturned =>
        Cardinality({i \in Issued(EvmSelects) : i > AclrAt}) = 1

\* C14: a numeric reply that fails to parse never aborts a phase: with an
\* ACLR reply that has a field that is no number, or fewer than three
\* fields, the phase does not raise (and returns the unreadable values as
\* NaN).
C14_AclrParseFailureIsNaN ==
    (InPhase /\ Answered(AclrCmd) /\ ~AclrUnpack(ReplyTo(AclrCmd)).ok) =>
        /\ status # "raised"
        /\ status = "returned" =>
                \E f \in {"channel_power", "adjacent_channel_lower",
                           "adjacent_channel_upper"} : IsNaN(result[1][f])

\* C15: a transport failure of the power or EVM fetch is not recovered
\* locally: once the session has raised on such a fetch the phase has
\* raised to its caller, with no result.
C15_FetchTransportFailureRaises ==
    (InPhase /\ \E i \in 1..Len(log) :
                    log[i].cmd \in {PowerCmd, EvmCmd} /\ ~log[i].ok) =>
        (status = "raised" /\ err.kind = "transport" /\ result = <<>>)

\* C16: a phase that aborts with an error after leaving the home state still
\* attempts to restore it before the error reaches the caller: after every
\* selection of the Amplifier context a selection of the NR context is
\* attempted, and after every selection of ACLR a selection of EVM.
C16_RestoreAttemptedOnError ==
    (InPhase /\ status = "raised") =>
        /\ \A a \in Issued(AmplifierSelects) :
                \E k \in (a + 1)..Len(log) : log[k].cmd \in NRSelects
        /\ \A a \in Issued(AclrSelects) :
                \E k \in (a + 1)..Len(log) : log[k].cmd \in EvmSelects

\* the DPD model update, as the phase issues it and as write_command_opc
\* would
DpdUpdateCmds == {":CONF:DPD:UPD; *OPC?", ":CONF:DPD:UPD;*OPC"}

\* C17: in the single-DPD phase the DPD model update goes through
\* write_command_opc: it is written with the *OPC marker and followed by
\* status queries up to the first reply with bit 0 set.
C17_DpdUpdateThroughExecute ==
    (InPhase /\ call.method = "perform_single_dpd") =>
        \A i \in Issued(DpdUpdateCmds) :
            /\ IsOpcWrite(log[i])
            /\ ExecuteReturned(i) =>
                    \E j \in PollsAfter(i) : BitZero(log[j])

OpcBy(e) == e.by = "write_command_opc"
IsArm(e) == e.io = "write" /\ OpcBy(e) /\ e.cmd = "*ESE 1"
IsMask(e) == e.io = "write" /\ OpcBy(e) /\ e.cmd = "*SRE 32"

\* C19: write_command_opc issues its interactions in this order and no
\* other: write '*ESE 1', write '*SRE 32', write '<command>;*OPC', then only
\* '*ESR?' queries until one reply has bit 0 set, and nothing after that.
\* Every interaction of write_command_opc in the log follows the one the
\* order puts before it, and a call of write_command_opc alone issues
\* nothing else: its log starts with '*ESE 1', its third entry is its own
\* command with the *OPC marker, it returns only with a status reply with
\* bit 0 set as last entry, and after such a reply it only returns.
C19_ExecuteInteractionOrder ==
    /\ \A i \in 1..Len(log) :
        OpcBy(log[i]) =>
            /\ IsArm(log[i]) \/ IsMask(log[i]) \/ IsOpcWrite(log[i])
                    \/ (IsPoll(log[i]) /\ i > 1)
            /\ (IsArm(log[i]) /\ i > 1 /\ OpcBy(log[i - 1])) =>
                    (IsPoll(log[i - 1]) /\ BitZero(log[i - 1]))
            /\ IsMask(log[i]) =>
                    (i > 1 /\ IsArm(log[i - 1]) /\ log[i - 1].ok)
            /\ IsOpcWrite(log[i]) =>
                    (i > 1 /\ IsMask(log[i - 1]) /\ log[i - 1].ok)
            /\ IsPoll(log[i]) =>
                    \/ IsOpcWrite(log[i - 1]) /\ log[i - 1].ok
                    \/ IsPoll(log[i - 1]) /\ OpcBy(log[i - 1])
                            /\ log[i - 1].ok /\ ~BitZero(log[i - 1])
    /\ call.method = "write_command_opc" =>
            /\ \A i \in 1..Len(log) : OpcBy(log[i])
            /\ Len(log) >= 1 => IsArm(log[1])
            /\ Len(log) >= 3 => log[3].cmd = call.command \o ";*OPC"
            /\ status = "returned" =>
                    (log # <<>> /\ IsPoll(log[Len(log)])
                                /\ BitZero(log[Len(log)]))
            /\ (log # <<>> /\ IsPoll(log[Len(log)]) /\ BitZero(log[Len(log)])) =>
                    (status = "returned" \/ Running("return"))

C19_Witness ==
    /\ call.method = "write_command_opc"
    /\ call.command = ":CONF:DDPD:STAR"
    /\ status = "returned"
    /\ Len(log) = 4
    /\ IsArm(log[1]) /\ IsMask(log[2]) /\ IsOpcWrite(log[3])
    /\ IsPoll(log[4]) /\ BitZero(log[4])

\* the command was written and every interaction since is a status query
\* that was answered with a register value that has bit 0 clear
OnlyClearReplies ==
    LET w == PollRunStart(Len(log)) IN
    /\ w >= 1
    /\ IsOpcWrite(log[w])
    /\ log[w].ok
    /\ \A j \in (w + 1)..Len(log) :
            log[j].ok /\ PyInt(log[j].reply).ok /\ ~BitZero(log[j])

\* C20: as long as no status reply has bit 0 set and no transport error
\* occurs, write_command_opc neither returns nor raises: it is still in its
\* status loop, about to query the register again, after any number of such
\* replies.
C20_PollsWhileBitClear ==
    OnlyClearReplies =>
        /\ Running("poll")
        /\ status = "running"

C20_Witness ==
    /\ call.method = "write_command_opc"
    /\ inst.opcLeft = Never
    /\ OnlyClearReplies
    /\ Len(log) = 3 + MaxWait
    /\ Running("poll")

\* the positions of the log at which a servo strategy acted: the call of the
\* external regulator, or a command of the K18 servo
ServoEntries ==
    {i \in 1..Len(log) : log[i].io = "servo_power" \/ log[i].by = "K18_power_servo"}

\* the context the commands before position i left selected
RECURSIVE ContextBefore(_)
ContextBefore(i) ==
    IF i <= 1 THEN "unknown"
    ELSE IF log[i - 1].ok /\ log[i - 1].cmd \in NRSelects THEN "NR"
    ELSE IF log[i - 1].ok /\ log[i - 1].cmd \in AmplifierSelects THEN "Amplifier"
    ELSE ContextBefore(i - 1)

\* C21: in the single-DPD phase the NR context is selected before any
\* enabled servo strategy is invoked (every servo interaction in the log is
\* preceded by a selection of the NR context), and the NR context is the
\* selected one when the measurement values are fetched.
C21_NRSelectedBeforeServo ==
    (InPhase /\ call.method = "perform_single_dpd") =>
        /\ \A i \in ServoEntries : \E k \in Issued(NRSelects) : k < i
        /\ \A i \in Issued({PowerCmd}) : ContextBefore(i) = "NR"

DpdPhases == {"perform_single_dpd", "perform_iterative_dpd", "perform_gmp_dpd"}

\* the DPD configuration of each phase: mode enable, model update or
\* iterative start, correction enable or selection of the corrected waveform
DpdConfigCmds(method) ==
    CASE method = "perform_single_dpd" ->
            {PolyModeCmd, ":CONF:DPD:UPD; *OPC?",
             "CONF:DPD:AMAM:STAT ON; *OPC?", "CONF:DPD:AMPM:STAT ON; *OPC?"}
      [] method = "perform_iterative_dpd" ->
            {"CONF:DDPD:STAT ON; *OPC?", DdpdStartCmd}
      [] method = "perform_gmp_dpd" ->
            {"CONF:DDPD:STAT ON; *OPC?", DdpdStartCmd,
             "CONF:MDPD:STAT ON; *OPC?", ":CALC:MDPD:MOD;*OPC?",
             ":CONF:MDPD:WAV:UPD;*OPC?", "CONF:MDPD:WAV:SEL MDPD;*OPC?"}
      [] OTHER -> {}

\* every configuration command of the phase was issued, and answered, before
\* position i of the log
ConfiguredBefore(i) ==
    \A c \in DpdConfigCmds(call.method) : \E j \in Issued({c}) : j < i

\* C22: in every DPD phase (single, iterative, GMP) all DPD configuration
\* commands of the phase have been issued and answered before a servo
\* strategy is invoked: when the phase resolves the servo flags and calls
\* the servo runner they are all in the log, and every servo interaction in
\* the log comes after all of them.
C22_ConfiguredBeforeServo ==
    (InPhase /\ call.method \in DpdPhases) =>
        /\ (Running("resolve") \/ Running("servos")) =>
                ConfiguredBefore(Len(log) + 1)
        /\ \A i \in ServoEntries : ConfiguredBefore(i)

C22_Witness ==
    /\ InPhase /\ call.method = "perform_gmp_dpd"
    /\ \E i \in ServoEntries : log[i].io = "servo_power" /\ log[i].ok
    /\ \E i \in ServoEntries : log[i].by = "K18_power_servo" /\ log[i].ok
    /\ ConfiguredBefore(Len(log) + 1)

\* the positions of the log at which a command of the set was sent, answered
\* or not
Sent(cmds) == {i \in 1..Len(log) : log[i].cmd \in cmds}

\* every command of `later` in the log was sent after a command of `earlier`
Follows(later, earlier) ==
    \A i \in Sent(later) : \E j \in Sent(earlier) : j < i

CaptureCmd == "INIT:IMM; *OPC?"

\* C23: in the baseline phase the capture the values are fetched from is
\* taken with the NR context selected, and the measurement sub-steps occur
\* in this order, each once: power fetch, EVM fetch, switch to ACLR, ACLR
\* fetch, switch back to EVM; a run that returns a result has issued the
\* switch back to EVM as its last command.
C23_BaselineMeasureOrder ==
    (InPhase /\ call.method = "measure_evm") =>
        /\ \A p \in Sent({PowerCmd}) :
                /\ log[p - 1].cmd = CaptureCmd /\ log[p - 1].ok
                /\ ContextBefore(p - 1) = "NR"
                /\ ContextBefore(p) = "NR"
        /\ Follows({EvmCmd}, {PowerCmd})
        /\ Follows(AclrSelects, {EvmCmd})
        /\ Follows({AclrCmd}, AclrSelects)
        /\ Follows(EvmSelects, {AclrCmd})
        /\ \A c \in {{PowerCmd}, {EvmCmd}, AclrSelects, {AclrCmd}, EvmSelects} :
                Cardinality(Sent(c)) <= 1
        /\ status = "returned" =>
                (log[Len(log)].cmd \in EvmSelects /\ log[Len(log)].ok)

C23_Witness ==
    /\ PhaseReturned /\ call.method = "measure_evm"
    /\ Issued({PowerCmd}) # {} /\ Issued({EvmCmd}) # {}
    /\ Issued(AclrSelects) # {} /\ Issued({AclrCmd}) # {}
    /\ Issued(EvmSelects) # {}
    /\ \E i \in ServoEntries : log[i].by = "K18_power_servo"

\* the measurement queries of a phase
FetchCmds == {PowerCmd, EvmCmd, AclrCmd}

\* C24: in the iterative-DPD phase the iteration-count command carries
\* exactly the ddpd_iterations the caller passed and is the command issued
\* directly before the start trigger, and no servo interaction, no selection
\* of the NR context and no measurement query is issued before the start
\* trigger has been answered.
C24_CountThenStartThenRest ==
    (InPhase /\ call.method = "perform_iterative_dpd") =>
        /\ loc.ddpd_iterations # DeadNum =>
                \A s \in Sent({DdpdStartCmd}) :
                    /\ s > 1
                    /\ log[s - 1].cmd = DdpdCountCmd(loc.ddpd_iterations)
                    /\ log[s - 1].ok
        /\ \A i \in ServoEntries \cup Sent(NRSelects) \cup Sent(FetchCmds) :
                \E s \in Issued({DdpdStartCmd}) : s < i

C24_Witness ==
    /\ InPhase /\ call.method = "perform_iterative_dpd"
    /\ loc.ddpd_iterations = Profile2.ddpd_iterations
    /\ Issued({DdpdCountCmd(Profile2.ddpd_iterations)}) # {}
    /\ Issued({DdpdStartCmd}) # {}
    /\ Running("servos")

DdpdOnCmds == {"CONF:DDPD:STAT ON; *OPC?"}
DdpdOffCmds == {"CONF:DDPD:STAT OFF; *OPC?", ":CONF:DDPD:STAT OFF; *OPC?"}
GenContOnCmds == {"CONF:GEN:CONT:STAT ON; *OPC?"}
GenContOffCmds == {"CONF:GEN:CONT:STAT OFF; *OPC?"}
GenConnOnCmds == {"CONF:GEN:CONN:STAT ON; *OPC?"}
GenConnOffCmds == {"CONF:GEN:CONN:STAT OFF; *OPC?"}

\* an "off" command was answered after the ACLR capture, and after every
\* "on" command of the same setting
OffAfterAclr(on, off) ==
    /\ \E j \in Issued(off) : j > AclrAt
    /\ \A i \in Issued(on) : \E j \in Issued(off) : j > i

\* C25: an iterative-DPD run that returns a result has, after the ACLR
\* capture, issued the command disabling iterative (direct) DPD and the
\* commands turning off generator control and generator connection, each
\* after the last command that turned the setting on (the K18 servo turns
\* the generator settings on again before the measurement): on return
\* iterative DPD is disabled and the generator connection is closed.
C25_IterativeTeardown ==
    (PhaseReturned /\ call.method = "perform_iterative_dpd") =>
        /\ OffAfterAclr(DdpdOnCmds, DdpdOffCmds)
        /\ OffAfterAclr(GenContOnCmds, GenContOffCmds)
        /\ OffAfterAclr(GenConnOnCmds, GenConnOffCmds)

C25_Witness ==
    /\ PhaseReturned /\ call.method = "perform_iterative_dpd"
    /\ \E i \in Issued(GenConnOnCmds) : log[i].by = "K18_power_servo"
    /\ OffAfterAclr(GenConnOnCmds, GenConnOffCmds)
    /\ OffAfterAclr(DdpdOnCmds, DdpdOffCmds)

DdpdTradeOffCmd == "CONF:DDPD:TRAD 100; *OPC?"
DdpdCountCmds == {DdpdCountCmd(a.ddpd_iterations) : a \in ArgProfiles}

\* the commands only the GMP phase issues before its servos: model enable,
\* lag and lead order, model iterations, model computation, waveform update
\* and selection of the computed waveform
GmpSpecificCmds ==
    {"CONF:MDPD:STAT ON; *OPC?", "CALC:MDPD:MOD;*OPC?",
     "CONF:GMP:LAG:ORD:XTER 1;*OPC?", "CONF:GMP:LEAD:ORD:XTER 1;*OPC?",
     "CONF:MDPD:ITER 5;*OPC?", ":CALC:MDPD:MOD;*OPC?",
     ":CONF:MDPD:WAV:UPD;*OPC?", "CONF:MDPD:WAV:SEL MDPD;*OPC?"}

\* every command of `later` in the log directly follows an answered command
\* of `earlier`
DirectlyFollows(later, earlier) ==
    \A i \in Sent(later) :
        i > 1 /\ log[i - 1].cmd \in earlier /\ log[i - 1].ok

\* the configure sequence of the iterative phase, as the log shows it
IterativeConfigureOrder ==
    /\ \A i \in Sent(DdpdOnCmds) : \E j \in Issued(AmplifierSelects) : j < i
    /\ DirectlyFollows({DdpdTradeOffCmd}, DdpdOnCmds)
    /\ DirectlyFollows(DdpdCountCmds, {DdpdTradeOffCmd})
    /\ DirectlyFollows({DdpdStartCmd}, DdpdCountCmds)

\* C26: the command sequence of the GMP phase contains the configure
\* sequence of the iterative phase (Amplifier context, enable direct DPD,
\* trade-off, iteration count, start) in the same order as the iterative
\* phase issues it, and every GMP-specific command is issued only after the
\* iterative start trigger has been answered.
C26_GmpExtendsIterative ==
    (InPhase /\ call.method \in {"perform_iterative_dpd", "perform_gmp_dpd"}) =>
        /\ IterativeConfigureOrder
        /\ call.method = "perform_gmp_dpd" =>
                \A i \in Sent(GmpSpecificCmds) :
                    \E s \in Issued({DdpdStartCmd}) : s < i

C26_Witness ==
    /\ InPhase /\ call.method = "perform_gmp_dpd"
    /\ Issued({DdpdStartCmd}) # {}
    /\ Issued({"CONF:MDPD:WAV:SEL MDPD;*OPC?"}) # {}
    /\ Issued(DdpdCountCmds) # {}

WavSelRefCmd == ":CONF:MDPD:WAV:SEL REF; *OPC?"
WavSelMdpdCmd == "CONF:MDPD:WAV:SEL MDPD;*OPC?"
DpdApplyOffCmd == ":CONF:DDPD:APPL:STAT OFF; *OPC?"

\* C27: the two teardown commands of the GMP phase (select the reference
\* waveform, disable DPD application) are only issued after the ACLR
\* capture and with the Amplifier context selected; a GMP run that returns a
\* result has issued both, the reference selection after the selection of
\* the computed waveform, so that on return the reference waveform is the
\* selected one and DPD application is disabled.
C27_GmpTeardown ==
    (InPhase /\ call.method = "perform_gmp_dpd") =>
        /\ \A j \in Sent({WavSelRefCmd, DpdApplyOffCmd}) :
                /\ Answered(AclrCmd) /\ j > AclrAt
                /\ ContextBefore(j) = "Amplifier"
        /\ status = "returned" =>
                /\ Issued({DpdApplyOffCmd}) # {}
                /\ Issued({WavSelRefCmd}) # {}
                /\ \A i \in Issued({WavSelMdpdCmd}) :
                        \E j \in Issued({WavSelRefCmd}) : j > i

C27_Witness ==
    /\ PhaseReturned /\ call.method = "perform_gmp_dpd"
    /\ Issued({WavSelMdpdCmd}) # {}
    /\ \E j \in Issued({WavSelRefCmd}) : ContextBefore(j) = "Amplifier"
    /\ \E j \in Issued({DpdApplyOffCmd}) : ContextBefore(j) = "Amplifier"
    /\ inst.ctx = "NR"

\* the commands that switch the two corrections on, and the ones that switch
\* them off: a SCPI Boolean is ON, OFF, 1 or 0
AmAmOnCmds == {"CONF:DPD:AMAM:STAT ON; *OPC?", "CONF:DPD:AMAM:STAT 1; *OPC?"}
AmAmOffCmds == {"CONF:DPD:AMAM:STAT OFF; *OPC?", "CONF:DPD:AMAM:STAT 0; *OPC?"}
AmPmOnCmds == {"CONF:DPD:AMPM:STAT ON; *OPC?", "CONF:DPD:AMPM:STAT 1; *OPC?"}
AmPmOffCmds == {"CONF:DPD:AMPM:STAT OFF; *OPC?", "CONF:DPD:AMPM:STAT 0; *OPC?"}

\* C28: a single-DPD run that returns a result has, after the ACLR capture
\* and with the Amplifier context selected, issued a command that disables
\* AM-AM correction and one that disables AM-PM correction, each after the
\* command that enabled it: both corrections are off when the phase returns.
C28_SingleDpdCorrectionsOff ==
    (PhaseReturned /\ call.method = "perform_single_dpd") =>
        /\ \E j \in Issued(AmAmOffCmds) :
                j > AclrAt /\ ContextBefore(j) = "Amplifier"
        /\ \E j \in Issued(AmPmOffCmds) :
                j > AclrAt /\ ContextBefore(j) = "Amplifier"
        /\ OffAfterAclr(AmAmOnCmds, AmAmOffCmds)
        /\ OffAfterAclr(AmPmOnCmds, AmPmOffCmds)

\* the interaction at position i was synchronized: it got a reply (a query
\* or a call that returns), or it is a "<command>;*OPC" write and a status
\* reply with bit 0 set was read after it; the two register writes that arm
\* write_command_opc belong to its protocol
Synchronized(i) ==
    \/ log[i].io # "write"
    \/ IsArm(log[i]) \/ IsMask(log[i])
    \/ IsOpcWrite(log[i]) /\ \E j \in PollsAfter(i) : BitZero(log[j])

\* C29: every command a phase sends is synchronized before the next command
\* is sent and before the phase returns: for each command a reply or the
\* operation-complete bit has been observed, and no command is a write that
\* nothing waits for.
C29_EveryCommandSynchronized ==
    InPhase =>
        \A i \in 1..Len(log) :
            (log[i].ok /\ (PollRunEnd(i + 1) <= Len(log) \/ status = "returned"))
                => Synchronized(i)

\* the four commands of the K18 servo sequence, without their terminator
K18EnableText == ":SENS:PSER:STAT ON"
K18TargetText(target_output) == ":SENS:PSER:TARG:VAL " \o ToString(target_output)
K18MaxIterText(max_iterations) == ":SENS:PSER:MAX:ITER " \o ToString(max_iterations)
K18StartText == ":SENS:PSER:STAR"
K18LevelCmd == ":FETCh:POWer:OUTPut:CURRent:RES?; *OPC?"

\* a command as self.instr.query sends it, and as write_command_opc would
Forms(text) == {text \o "; *OPC?", text \o ";*OPC"}

\* the K18 servo sequence as issued for the values of profile a
K18Texts(a) ==
    {K18EnableText, K18TargetText(a.target_output),
     K18MaxIterText(a.servo_iterations), K18StartText}

K18SequenceCmds == UNION {Forms(t) : t \in UNION {K18Texts(a) : a \in ArgProfiles}}

\* C30: the K18 servo issues enable servo mode, set target, set max
\* iterations, start in this order, the target and max-iterations commands
\* carrying the caller's target_output and servo_iterations unchanged; the
\* achieved level is read back only after start was answered; and each of
\* the four commands goes through write_command_opc (written with the *OPC
\* marker and followed by status queries up to a reply with bit 0 set).
C30_K18SequenceThroughExecute ==
    InPhase =>
        /\ loc.target_output # DeadNum =>
                /\ \A i \in Sent(Forms(K18MaxIterText(loc.servo_iterations))) :
                        log[i - 1].cmd \in Forms(K18TargetText(loc.target_output))
                /\ \A i \in Sent(Forms(K18TargetText(loc.target_output))) :
                        log[i - 1].cmd \in Forms(K18EnableText)
        /\ \A i \in Sent(Forms(K18StartText)) :
                \E a \in ArgProfiles :
                    log[i - 1].cmd \in Forms(K18MaxIterText(a.servo_iterations))
        /\ \A i \in Sent({K18LevelCmd}) : \E s \in Issued(Forms(K18StartText)) : s < i
        /\ \A i \in Issued(K18SequenceCmds) :
                /\ IsOpcWrite(log[i])
                /\ ExecuteReturned(i) => \E j \in PollsAfter(i) : BitZero(log[j])

\* the external regulator was called and returned; the K18 servo ran to its
\* end
ExternalRan == \E i \in 1..Len(log) : log[i].io = "servo_power" /\ log[i].ok
InternalRan == Issued({K18LevelCmd}) # {}

\* the iteration count the external regulator returned
RegulatorCount ==
    PyInt(log[CHOOSE i \in 1..Len(log) : log[i].io = "servo_power" /\ log[i].ok].reply).val

\* C31: the three servo fields of a result are never combined:
\* servo_iterations is exactly the count the external regulator returned
\* and 0 when the external strategy did not run (also when the K18 servo
\* ran), external_servo_time is nonzero only if the external strategy ran,
\* internal_servo_time only if the K18 servo ran.
C31_ServoFieldsSeparate ==
    PhaseReturned =>
        LET r == result[1] IN
        /\ ExternalRan => r.servo_iterations = RegulatorCount
        /\ ~ExternalRan => r.servo_iterations = 0
        /\ r.external_servo_time # 0 => ExternalRan
        /\ r.internal_servo_time # 0 => InternalRan

C31_Witness ==
    /\ PhaseReturned
    /\ ~ExternalRan /\ InternalRan
    /\ result[1].servo_iterations = 0
    /\ result[1].external_servo_time = 0
    /\ result[1].internal_servo_time # 0

\* the running phase was called with no override and has resolved its flags
ResolvedWithoutOverride ==
    /\ Resolved
    /\ loc.USE_POWER_SERVO = "None"
    /\ loc.USE_K18_POWER_SERVO = "None"

\* C32: no step of any call changes the process-wide servo defaults, and a
\* phase called with no override, after any sequence of earlier calls with
\* any overrides, resolves its two flags to those defaults.
C32_DefaultsNeverModified ==
    /\ [][defaults' = defaults]_vars
    /\ [](ResolvedWithoutOverride =>
            /\ loc.use_power_servo = defaults.USE_POWER_SERVO
            /\ loc.use_k18_power_servo = defaults.USE_K18_POWER_SERVO)

\* a baseline call with no override that follows a DPD phase (which left the
\* ACLR measurement type selected)
C32_Witness ==
    /\ ResolvedWithoutOverride
    /\ call.method = "measure_evm"
    /\ inst.meas = "ACLR"
    /\ ~defaults.USE_POWER_SERVO /\ defaults.USE_K18_POWER_SERVO
    /\ ~loc.use_power_servo /\ loc.use_k18_power_servo

\* the phase is about to fetch the power or the EVM value
AboutToFetch ==
    /\ call.method \in Phases
    /\ Running("fetch")
    /\ Head(todo).cmd \in {PowerCmd, EvmCmd}

\* C33: in any sequence of phase calls, every power and EVM fetch is issued
\* while the last selected context is the NR context and the last selected
\* measurement type is EVM; a baseline phase that follows a DPD phase does
\* not fetch while ACLR is still the selected measurement type.
C33_FetchInNRContextAndEvmType ==
    AboutToFetch => (inst.ctx = "NR" /\ inst.meas = "EVM")

Ended == status \in {"returned", "raised"}

\* C34: every phase call terminates, returning a result or raising, when
\* the instrument answers every query, sets the operation-complete bit after
\* each '*OPC' command and the regulator returns; and the only statement a
\* phase executes again is the status query of write_command_opc: a step
\* that leaves the statements still to execute as they were is such a query.
C34_PhaseTerminates ==
    /\ (status = "running") ~> Ended
    /\ [][(status = "running" /\ status' = "running" /\ todo' = todo)
                => Running("poll")]_vars

\* a returning call in which a status loop took more than one query
C34_Witness ==
    /\ PhaseReturned
    /\ \E i \in 1..Len(log) : IsPoll(log[i]) /\ log[i].ok /\ ~BitZero(log[i])
    /\ ExternalRan /\ InternalRan

\* the calls of a servo strategy the running call has made and has still to
\* make: of the external regulator, and of the K18 servo (counted by its
\* start command)
ExternalCalls(stmts) ==
    Cardinality({i \in 1..Len(log) : log[i].io = "servo_power"})
    + Cardinality({k \in 1..Len(stmts) : stmts[k].op = "servo_power"})
InternalCalls(stmts) ==
    Cardinality(Sent(Forms(K18StartText)))
    + Cardinality({k \in 1..Len(stmts) : stmts[k].op = "k18_start"})

\* C35: in every phase each servo strategy is invoked at most once per call.
\* When the servo runner is entered, the external regulator is called
\* (once) exactly if its flag resolved true and a regulator object was
\* supplied, and the K18 servo exactly if its flag resolved true; with the
\* flag true and None for the regulator the external strategy is skipped
\* without an error, and a result of a call in which the regulator was not
\* called reports servo_iterations = 0 and external_servo_time = 0.
C35_EachServoAtMostOnce ==
    /\ [](InPhase => (ExternalCalls(todo) <= 1 /\ InternalCalls(todo) <= 1))
    /\ [][(call.method \in Phases /\ Running("servos")) =>
            /\ status' = "running"
            /\ ExternalCalls(todo') =
                    (IF loc.use_power_servo /\ loc.power_servo = "obj" THEN 1 ELSE 0)
            /\ InternalCalls(todo') = (IF loc.use_k18_power_servo THEN 1 ELSE 0)
            /\ loc'.servo_loops = 0 /\ loc'.ext_servo_time = 0]_vars
    /\ []((PhaseReturned /\ ~ExternalRan) =>
            /\ result[1].servo_iterations = 0
            /\ result[1].external_servo_time = 0)

\* a call with the external flag true and no regulator object has passed the
\* servo runner without calling the regulator and returned
C35_Witness ==
    /\ PhaseReturned
    /\ loc.use_power_servo /\ ~loc.use_k18_power_servo
    /\ ~ExternalRan
    /\ result[1].servo_iterations = 0
    /\ result[1].external_servo_time = 0

\* the commands of the DPD family: polynomial DPD, direct (iterative) DPD and
\* memory-polynomial DPD configuration, start, enable and disable
DpdFamilyCmds ==
    {PolyModeCmd, ":CONF:DPD:TRAD 10; *OPC?", ":CONF:DPD:FILE:GEN; *OPC?",
     ":CONF:DPD:UPD; *OPC?",
     "CONF:DPD:AMAM:STAT ON; *OPC?", "CONF:DPD:AMPM:STAT ON; *OPC?",
     "CONF:DPD:AMAM:STAT OF; *OPC?", "CONF:DPD:AMPM:STAT OF; *OPC?",
     DdpdTradeOffCmd, DdpdStartCmd, WavSelRefCmd, DpdApplyOffCmd}
    \cup DdpdOnCmds \cup DdpdOffCmds \cup DdpdCountCmds \cup GmpSpecificCmds

\* C36: in every phase every DPD-family command, the teardown ones
\* included, is issued while the Amplifier context is the last selected
\* context, never while the NR context is selected.
C36_DpdCommandsInAmplifierContext ==
    (call.method \in Phases /\ Running("query")
        /\ Head(todo).cmd \in DpdFamilyCmds) => inst.ctx = "Amplifier"

\* the status query at position i was answered with a text that is no
\* integer
UnreadableStatus(i) == IsPoll(log[i]) /\ log[i].ok /\ ~PyInt(log[i].reply).ok

\* C37: when a reply to '*ESR?' inside write_command_opc is not an integer,
\* write_command_opc stops polling and raises (the ValueError of int()) to
\* its caller: the reply is the last interaction of the call, which has
\* neither gone on polling nor returned.
C37_UnreadableStatusRaises ==
    \A i \in 1..Len(log) :
        UnreadableStatus(i) =>
            /\ i = Len(log)
            /\ status = "raised"
            /\ err.kind = "ValueError"
            /\ result = <<>>

C37_Witness ==
    /\ call.method = "write_command_opc"
    /\ Len(log) = 5
    /\ IsPoll(log[4]) /\ log[4].ok /\ PyInt(log[4].reply).ok /\ ~BitZero(log[4])
    /\ UnreadableStatus(5)
    /\ status = "raised"

\* how write_command_opc of vsa.py stands after the interactions in l: the
\* exception it has raised, "returned" when the last status reply ended the
\* loop, "running" otherwise
ReferenceStanding(l) ==
    IF l = <<>> THEN "running"
    ELSE LET e == l[Len(l)] IN
         IF ~e.ok THEN "transport"
         ELSE IF ~IsPoll(e) THEN "running"
         ELSE IF PollOutcome(e.reply) = "again" THEN "running"
         ELSE IF PollOutcome(e.reply) = "done" THEN "returned"
         ELSE "ValueError"

\* how the call under way stands; the return statement that follows the loop
\* counts as returned
Standing ==
    IF status = "raised" THEN err.kind
    ELSE IF status = "returned" \/ Running("return") THEN "returned"
    ELSE "running"

\* C38: the write_command_opc of vsa.py, of the backup and of vsa_copy.py
\* behave alike: on the same command, after the same interactions and
\* replies, each of them stands where the one of vsa.py stands (still
\* running, returned after the first reply with bit 0 set, or raised the
\* same exception).
C38_ImplementationsEquivalent ==
    (call.method = "write_command_opc" /\ status # "idle") =>
        Standing = ReferenceStanding(log)

\* vsa.py and the backup do stand alike after every log
BackupAgrees ==
    (call.method = "write_command_opc" /\ status # "idle"
        /\ call.impl \in {"vsa", "backup"}) =>
        Standing = ReferenceStanding(log)

\* write_command_opc of vsa_copy.py has raised AttributeError after the
\* first status reply with bit 0 clear
CopyRaisesOnFirstWait ==
    /\ call.impl = "vsa_copy"
    /\ status = "raised"
    /\ err.kind = "AttributeError"
    /\ Len(log) = 4
    /\ IsPoll(log[4]) /\ log[4].ok /\ ~BitZero(log[4])

====
